---- MODULE Spec2Model ----
(***************************************************************************)
(* The product API of product-api/server.js: an Express application with   *)
(* one in-memory array of products, an API-key guard on the /api router,   *)
(* two validation middlewares and eight routes.  One request is handled    *)
(* to completion before the next one (Node's single thread); a request and *)
(* the response the server gave to it are kept in req and res.  runtime is *)
(* the Node.js the process runs on, fixed when it starts.                  *)
(***************************************************************************)
EXTENDS Integers, Sequences, FiniteSets, TLC

VARIABLES products, issued, deleted, writes, req, res, runtime

vars == <<products, issued, deleted, writes, req, res, runtime>>

(***************************************************************************)
(* Bounds of the model.                                                    *)
(***************************************************************************)
\* Successful create, update and delete requests in one run; also the size
\* of the pool uuidv4() draws from.
MaxWrites == 2

(***************************************************************************)
(* JSON values as JavaScript sees them after bodyParser.json(): a tag and  *)
(* the payload of each primitive kind.  "undefined" is a missing property. *)
(***************************************************************************)
Absent == [t |-> "undefined", s |-> "", n |-> 0, b |-> FALSE]
Null == [t |-> "null", s |-> "", n |-> 0, b |-> FALSE]
Str(s) == [t |-> "string", s |-> s, n |-> 0, b |-> FALSE]
Num(n) == [t |-> "number", s |-> "", n |-> n, b |-> FALSE]
Bool(b) == [t |-> "boolean", s |-> "", n |-> 0, b |-> b]

\* typeof v
TypeOf(v) == IF v.t = "null" THEN "object" ELSE v.t

\* ToBoolean(v): what `!v`, `v &&` and `v ||` test
Truthy(v) ==
  CASE v.t = "undefined" -> FALSE
    [] v.t = "null" -> FALSE
    [] v.t = "boolean" -> v.b
    [] v.t = "number" -> v.n /= 0
    [] v.t = "string" -> v.s /= ""
    [] OTHER -> TRUE

\* a || b
Or(a, b) == IF Truthy(a) THEN a ELSE b

Fields == {"name", "description", "price", "category", "inStock"}

\* The type each field is declared with (README, validateProductCreation)
DeclaredType(f) ==
  CASE f = "price" -> "number"
    [] f = "inStock" -> "boolean"
    [] OTHER -> "string"

(***************************************************************************)
(* The seed collection.                                                    *)
(***************************************************************************)
Product(id, name, description, price, category, inStock) ==
  [id |-> id, name |-> name, description |-> description, price |-> price,
   category |-> category, inStock |-> inStock]

SeedProducts ==
  << Product("1", Str("Laptop"), Str("High-performance laptop with 16GB RAM"),
             Num(1200), Str("electronics"), Bool(TRUE)),
     Product("2", Str("Smartphone"), Str("Latest model with 128GB storage"),
             Num(800), Str("electronics"), Bool(TRUE)),
     Product("3", Str("Coffee Maker"), Str("Programmable coffee maker with timer"),
             Num(50), Str("kitchen"), Bool(FALSE)) >>

Ids(ps) == {ps[i].id : i \in 1..Len(ps)}

SeedIds == Ids(SeedProducts)

\* The secret the server is configured with (process.env.API_KEY)
API_KEY == "mysecretkey254"

(***************************************************************************)
(* Strings as character sequences, for toLowerCase, includes and parseInt. *)
(* The table covers the strings the model's requests and seed data use.    *)
(***************************************************************************)
Chars(s) ==
  CASE s = "" -> <<>>
    [] s = "0" -> <<"0">>
    [] s = "1" -> <<"1">>
    [] s = "2" -> <<"2">>
    [] s = "-1" -> <<"-", "1">>
    [] s = "2a" -> <<"2", "a">>
    [] s = "abc" -> <<"a", "b", "c">>
    [] s = "phone" -> <<"p", "h", "o", "n", "e">>
    [] s = "PHONE" -> <<"P", "H", "O", "N", "E">>
    [] s = "Laptop" -> <<"L", "a", "p", "t", "o", "p">>
    [] s = "Smartphone" -> <<"S", "m", "a", "r", "t", "p", "h", "o", "n", "e">>
    [] s = "Coffee Maker" ->
         <<"C", "o", "f", "f", "e", "e", " ", "M", "a", "k", "e", "r">>
    [] s = "New Product" ->
         <<"N", "e", "w", " ", "P", "r", "o", "d", "u", "c", "t">>

UpperCase ==
  <<"A", "B", "C", "D", "E", "F", "G", "H", "I", "J", "K", "L", "M",
    "N", "O", "P", "Q", "R", "S", "T", "U", "V", "W", "X", "Y", "Z">>

LowerCase ==
  <<"a", "b", "c", "d", "e", "f", "g", "h", "i", "j", "k", "l", "m",
    "n", "o", "p", "q", "r", "s", "t", "u", "v", "w", "x", "y", "z">>

\* String.prototype.toLowerCase, on characters
ToLowerCase(cs) ==
  [i \in 1..Len(cs) |->
     IF \E k \in 1..Len(UpperCase) : UpperCase[k] = cs[i]
     THEN LowerCase[CHOOSE k \in 1..Len(UpperCase) : UpperCase[k] = cs[i]]
     ELSE cs[i]]

\* String.prototype.includes
Includes(hay, needle) ==
  \E k \in 0..(Len(hay) - Len(needle)) :
     SubSeq(hay, k + 1, k + Len(needle)) = needle

Digits == <<"0", "1", "2", "3", "4", "5", "6", "7", "8", "9">>

IsDigit(c) == \E k \in 1..Len(Digits) : Digits[k] = c

DigitValue(c) == (CHOOSE k \in 1..Len(Digits) : Digits[k] = c) - 1

NaN == [nan |-> TRUE, n |-> 0]

\* The value of the longest prefix of decimal digits of cs from position i
RECURSIVE DigitPrefix(_, _, _)
DigitPrefix(cs, i, acc) ==
  IF i > Len(cs) \/ ~IsDigit(cs[i]) THEN acc
  ELSE DigitPrefix(cs, i + 1, acc * 10 + DigitValue(cs[i]))

\* parseInt(v) of a query parameter: an optional sign, then decimal digits;
\* NaN when no digit follows (a missing parameter reads "undefined")
ParseInt(v) ==
  IF v.t /= "string" THEN NaN
  ELSE LET cs == Chars(v.s)
           signed == Len(cs) > 0 /\ cs[1] \in {"-", "+"}
           first == IF signed THEN 2 ELSE 1
       IN IF first > Len(cs) \/ ~IsDigit(cs[first]) THEN NaN
          ELSE [nan |-> FALSE,
                n |-> IF signed /\ cs[1] = "-"
                      THEN 0 - DigitPrefix(cs, first, 0)
                      ELSE DigitPrefix(cs, first, 0)]

\* parseInt(v) || d
ParseIntOr(v, d) ==
  LET r == ParseInt(v) IN IF r.nan \/ r.n = 0 THEN d ELSE r.n

\* Array.prototype.slice(start, end): negative indexes count from the end
Slice(a, start, end) ==
  LET len == Len(a)
      k == IF start < 0 THEN (IF len + start > 0 THEN len + start ELSE 0)
           ELSE (IF start < len THEN start ELSE len)
      final == IF end < 0 THEN (IF len + end > 0 THEN len + end ELSE 0)
               ELSE (IF end < len THEN end ELSE len)
  IN IF final > k THEN SubSeq(a, k + 1, final) ELSE <<>>

\* Array.prototype.findIndex(p => p.id === id), one-based; 0 when none
FindIndex(ps, id) ==
  IF \E i \in 1..Len(ps) : ps[i].id = id
  THEN CHOOSE i \in 1..Len(ps) :
         ps[i].id = id /\ \A j \in 1..(i - 1) : ps[j].id /= id
  ELSE 0

\* Array.prototype.splice(index, 1), index one-based
Splice(ps, index) ==
  [i \in 1..(Len(ps) - 1) |-> IF i < index THEN ps[i] ELSE ps[i + 1]]

(***************************************************************************)
(* Requests and responses.                                                 *)
(***************************************************************************)
EmptyBody ==
  [name |-> Absent, description |-> Absent, price |-> Absent,
   category |-> Absent, inStock |-> Absent]

NoQuery == [category |-> Absent, page |-> Absent, limit |-> Absent, q |-> Absent]

\* A request whose body, if it has one, is the text of a JSON object;
\* body is what bodyParser.json() leaves in req.body
Request(method, path, key, query, body) ==
  [method |-> method, path |-> path, key |-> key, query |-> query,
   body |-> body, parses |-> TRUE]

\* The same request with the body text "{", which JSON.parse rejects;
\* req.body stays the empty object
Malformed(r) == [r EXCEPT !.body = EmptyBody, !.parses = FALSE]

\* No request is being handled
NoReq == Request("NONE", <<>>, Absent, NoQuery, EmptyBody)

NoRes == [status |-> 0, body |-> [message |-> ""]]

\* The error classes and the global error handling middleware:
\* res.status(err.status || 500).json({message: err.message, ...})
ErrorResponse(status, message) == [status |-> status, body |-> [message |-> message]]

NotFoundError == ErrorResponse(404, "Product not found")

UnauthorizedError == ErrorResponse(401, "Unauthorized")

ValidationError(message) == ErrorResponse(400, message)

Json(status, body) == [status |-> status, body |-> body]

\* res.status(204).send(): a status and no body
NoContent == [status |-> 204, body |-> [message |-> ""]]

\* A middleware that called next() without an error
Pass == [status |-> 0, body |-> [message |-> ""]]

\* The path as the request line has it
RECURSIVE Url(_)
Url(path) ==
  IF Len(path) = 0 THEN "/"
  ELSE IF Len(path) = 1 THEN "/" \o path[1]
  ELSE "/" \o path[1] \o Url(Tail(path))

\* No route matched: Express answers 404 "Cannot <METHOD> <url>"
CannotResponse(r) ==
  [status |-> 404, body |-> [text |-> "Cannot " \o r.method \o " " \o Url(r.path)]]

(***************************************************************************)
(* Middlewares.                                                            *)
(***************************************************************************)
\* The Node.js lines whose JSON.parse words the error differently
Runtimes == {"node18", "node20", "node22"}

\* The message of the SyntaxError JSON.parse throws on the text "{"
JsonParseMessage(rt) ==
  CASE rt = "node18" -> "Unexpected end of JSON input"
    [] rt = "node20" -> "Expected property name or '}' in JSON at position 1"
    [] rt = "node22" ->
         "Expected property name or '}' in JSON at position 1 (line 1 column 2)"

\* app.use(bodyParser.json()), mounted before every route and before the
\* guard: a body that does not parse goes to the error middleware as a 400
\* (err.message is the text of the runtime's JSON.parse)
bodyParser(r) ==
  IF r.parses THEN Pass ELSE ErrorResponse(400, JsonParseMessage(runtime))

\* apiKey && apiKey === process.env.API_KEY
authMiddleware(apiKey) == Truthy(apiKey) /\ apiKey = Str(API_KEY)

\* A creation rule without the type checks
validatePresenceOnly(body) ==
  IF ~Truthy(body.name) \/ ~Truthy(body.description) \/ ~Truthy(body.price)
     \/ ~Truthy(body.category) \/ body.inStock.t = "undefined"
  THEN ValidationError("All fields are required")
  ELSE Pass

validateProductCreation(body) ==
  IF ~Truthy(body.name) \/ ~Truthy(body.description) \/ ~Truthy(body.price)
     \/ ~Truthy(body.category) \/ body.inStock.t = "undefined"
  THEN ValidationError("All fields are required")
  ELSE IF TypeOf(body.name) /= "string" \/ TypeOf(body.description) /= "string"
          \/ TypeOf(body.price) /= "number" \/ TypeOf(body.category) /= "string"
          \/ TypeOf(body.inStock) /= "boolean"
  THEN ValidationError("Invalid data types")
  ELSE Pass

validateProductUpdate(body) ==
  IF Truthy(body.name) /\ TypeOf(body.name) /= "string"
  THEN ValidationError("Name must be a string")
  ELSE IF Truthy(body.description) /\ TypeOf(body.description) /= "string"
  THEN ValidationError("Description must be a string")
  ELSE IF Truthy(body.price) /\ TypeOf(body.price) /= "number"
  THEN ValidationError("Price must be a number")
  ELSE IF Truthy(body.category) /\ TypeOf(body.category) /= "string"
  THEN ValidationError("Category must be a string")
  ELSE IF body.inStock.t /= "undefined" /\ TypeOf(body.inStock) /= "boolean"
  THEN ValidationError("inStock must be a boolean")
  ELSE Pass

(***************************************************************************)
(* Route handlers, as functions of the collection and the request.         *)
(***************************************************************************)
\* products.filter(p => p.category === category)
FilterByCategory(ps, category) ==
  SelectSeq(ps, LAMBDA p : p.category = category)

\* GET /products
ListResponse(ps, query) ==
  LET filteredProducts == IF Truthy(query.category)
                          THEN FilterByCategory(ps, query.category)
                          ELSE ps
      page == ParseIntOr(query.page, 1)
      limit == ParseIntOr(query.limit, 10)
      startIndex == (page - 1) * limit
      endIndex == page * limit
  IN Json(200, [page |-> page, limit |-> limit,
                total |-> Len(filteredProducts),
                products |-> Slice(filteredProducts, startIndex, endIndex)])

\* GET /products/:id
GetResponse(ps, id) ==
  IF FindIndex(ps, id) /= 0 THEN Json(200, ps[FindIndex(ps, id)])
  ELSE NotFoundError

\* The new record of POST /products
NewProduct(id, body) ==
  Product(id, body.name, body.description, body.price, body.category, body.inStock)

\* An update that stores whatever the payload holds
MergeOverwrite(product, body) ==
  [product EXCEPT !.name = body.name,
                  !.description = body.description,
                  !.price = body.price,
                  !.category = body.category,
                  !.inStock = body.inStock]

\* The assignments of PUT /products/:id
MergeUpdate(product, body) ==
  [product EXCEPT !.name = Or(body.name, product.name),
                  !.description = Or(body.description, product.description),
                  !.price = Or(body.price, product.price),
                  !.category = Or(body.category, product.category),
                  !.inStock = IF body.inStock.t /= "undefined"
                              THEN body.inStock ELSE product.inStock]

\* GET /products/search
SearchResponse(ps, query) ==
  LET searchTerm == IF Truthy(query.q) THEN ToLowerCase(Chars(query.q.s)) ELSE <<>>
  IN Json(200, SelectSeq(ps,
       LAMBDA p : Includes(ToLowerCase(Chars(p.name.s)), searchTerm)))

\* products.reduce((acc, product) => ..., {}) from position i on
RECURSIVE StatsReduce(_, _, _)
StatsReduce(ps, i, acc) ==
  IF i > Len(ps) THEN acc
  ELSE LET c == ps[i].category.s
           count == IF c \in DOMAIN acc THEN acc[c] ELSE 0
       IN StatsReduce(ps, i + 1,
            [k \in (DOMAIN acc) \cup {c} |-> IF k = c THEN count + 1 ELSE acc[k]])

\* GET /products/stats
StatsResponse(ps) == Json(200, StatsReduce(ps, 1, [k \in {} |-> 0]))

\* uuidv4(): the n-th identifier of the generator's pool
Uuid(n) == "uuid-" \o ToString(n)

(***************************************************************************)
(* The requests the clients send.                                          *)
(***************************************************************************)
\* x-api-key: missing, wrong, or the configured secret
Keys == {Absent, Str("MYSECRETKEY254"), Str(API_KEY)}

\* The payload of the README's example request
ExampleBody ==
  [name |-> Str("New Product"), description |-> Str("Description"),
   price |-> Num(100), category |-> Str("electronics"), inStock |-> Bool(TRUE)]

\* The values a client puts in a field: nothing, null, booleans, numbers and
\* strings, falsy ones among them
FieldValues(f) ==
  {Absent, Null, Bool(TRUE), Bool(FALSE), Num(0), Num(100), Str(""),
   IF DeclaredType(f) = "string" THEN ExampleBody[f] ELSE Str("1")}

\* The example payload with one field replaced or left out
CreateBodies ==
  {[ExampleBody EXCEPT ![f] = v] : <<f, v>> \in
     UNION {{<<g, w>> : w \in FieldValues(g)} : g \in Fields}}

\* Payloads of at most one field, and the example payload
UpdateBodies ==
  {ExampleBody} \cup
  {[EmptyBody EXCEPT ![f] = v] : <<f, v>> \in
     UNION {{<<g, w>> : w \in FieldValues(g)} : g \in Fields}}

\* The :id of a request: a seed id, an id uuidv4() can issue, or a word
PathIds == SeedIds \cup {Uuid(n) : n \in 1..MaxWrites} \cup {"search"}

PageValues == {Absent, Str("0"), Str("1"), Str("2"), Str("abc")}

LimitValues == {Absent, Str("0"), Str("1"), Str("2"), Str("-1"), Str("2a")}

ListQueries ==
  {[NoQuery EXCEPT !.category = c, !.page = p, !.limit = l] :
     c \in {Absent, Str(""), Str("kitchen")}, p \in PageValues, l \in LimitValues}

SearchQueries ==
  {[NoQuery EXCEPT !.q = q] : q \in {Absent, Str(""), Str("phone"), Str("PHONE")}}

\* What a request with a missing or wrong key carries: the guard reads the
\* key alone, so these sample the payloads and queries
SampleBodies == {EmptyBody, ExampleBody, [ExampleBody EXCEPT !.price = Str("1")]}

SampleQueries ==
  {NoQuery,
   [NoQuery EXCEPT !.category = Str("kitchen"), !.page = Str("1"), !.limit = Str("1")]}

\* The requests of each route: under the secret every combination of its
\* inputs, under every key the sampled ones, and one request with a
\* malformed body per key and id
RootRequests ==
  LET plain == {Request("GET", <<>>, key, NoQuery, EmptyBody) : key \in Keys}
  IN plain \cup {Malformed(r) : r \in plain}

ListRequests ==
  {Request("GET", <<"api", "products">>, Str(API_KEY), query, EmptyBody) :
     query \in ListQueries}
  \cup {Request("GET", <<"api", "products">>, key, query, EmptyBody) :
          key \in Keys, query \in SampleQueries}
  \cup {Malformed(Request("GET", <<"api", "products">>, key, NoQuery, EmptyBody)) :
          key \in Keys}

GetRequests ==
  LET plain == {Request("GET", <<"api", "products", id>>, key, NoQuery, EmptyBody) :
                  key \in Keys, id \in PathIds \cup {"stats"}}
  IN plain \cup {Malformed(r) : r \in plain}
     \cup {Request("GET", <<"api", "products", "search">>, key, query, EmptyBody) :
             key \in Keys, query \in SearchQueries}

CreateRequests ==
  {Request("POST", <<"api", "products">>, Str(API_KEY), NoQuery, body) :
     body \in CreateBodies}
  \cup {Request("POST", <<"api", "products">>, key, NoQuery, body) :
          key \in Keys, body \in SampleBodies}
  \cup {Malformed(Request("POST", <<"api", "products">>, key, NoQuery, EmptyBody)) :
          key \in Keys}

UpdateRequests ==
  {Request("PUT", <<"api", "products", id>>, Str(API_KEY), NoQuery, body) :
     id \in PathIds, body \in UpdateBodies}
  \cup {Request("PUT", <<"api", "products", id>>, key, NoQuery, body) :
          key \in Keys, id \in PathIds, body \in SampleBodies}
  \cup {Malformed(Request("PUT", <<"api", "products", id>>, key, NoQuery, EmptyBody)) :
          key \in Keys, id \in PathIds}

DeleteRequests ==
  LET plain == {Request("DELETE", <<"api", "products", id>>, key, NoQuery, EmptyBody) :
                  key \in Keys, id \in PathIds}
  IN plain \cup {Malformed(r) : r \in plain}

\* Requests no route is registered for
OtherRequests ==
  LET plain == {Request(m[1], m[2], key, NoQuery, EmptyBody) :
                  key \in Keys,
                  m \in {<<"POST", <<>>>>, <<"PUT", <<"api", "products">>>>,
                         <<"GET", <<"api", "orders">>>>}}
  IN plain \cup {Malformed(r) : r \in plain}

(***************************************************************************)
(* The state machine.                                                      *)
(***************************************************************************)
Init ==
  /\ products = SeedProducts
  /\ issued = {}
  /\ deleted = {}
  /\ writes = 0
  /\ req = NoReq
  /\ res = NoRes
  /\ runtime \in Runtimes

\* app.get('/'): no credential is asked for
GetRoot ==
  /\ req = NoReq
  /\ \E r \in RootRequests :
       /\ req' = r
       /\ res' = IF bodyParser(r) /= Pass THEN bodyParser(r)
                 ELSE Json(200, [text |->
                   "Welcome to the Product API! Go to /api/products to see all products."])
  /\ UNCHANGED <<products, issued, deleted, writes, runtime>>

\* GET /api/products
ListProducts ==
  /\ req = NoReq
  /\ \E r \in ListRequests :
       /\ req' = r
       /\ res' = IF bodyParser(r) /= Pass THEN bodyParser(r)
                 ELSE IF ~authMiddleware(r.key) THEN UnauthorizedError
                 ELSE ListResponse(products, r.query)
  /\ UNCHANGED <<products, issued, deleted, writes, runtime>>

\* GET /api/products/:id, the first route a GET of /api/products/<word>
\* matches, /api/products/search and /api/products/stats included
GetProduct ==
  /\ req = NoReq
  /\ \E r \in GetRequests :
       /\ req' = r
       /\ res' = IF bodyParser(r) /= Pass THEN bodyParser(r)
                 ELSE IF ~authMiddleware(r.key) THEN UnauthorizedError
                 ELSE GetResponse(products, r.path[3])
  /\ UNCHANGED <<products, issued, deleted, writes, runtime>>

\* POST /api/products: uuidv4() is called in the handler, after the guard
\* and the validation
CreateProduct ==
  /\ req = NoReq
  /\ \E r \in CreateRequests :
       /\ req' = r
       /\ IF bodyParser(r) /= Pass
          THEN /\ res' = bodyParser(r)
               /\ UNCHANGED <<products, issued, writes>>
          ELSE IF ~authMiddleware(r.key)
          THEN /\ res' = UnauthorizedError
               /\ UNCHANGED <<products, issued, writes>>
          ELSE IF validateProductCreation(r.body) /= Pass
          THEN /\ res' = validateProductCreation(r.body)
               /\ UNCHANGED <<products, issued, writes>>
          ELSE /\ writes < MaxWrites
               /\ \E n \in 1..MaxWrites :
                    /\ Uuid(n) \notin issued
                    /\ products' = Append(products, NewProduct(Uuid(n), r.body))
                    /\ issued' = issued \cup {Uuid(n)}
                    /\ res' = Json(201, NewProduct(Uuid(n), r.body))
               /\ writes' = writes + 1
  /\ UNCHANGED <<deleted, runtime>>

\* PUT /api/products/:id
UpdateProduct ==
  /\ req = NoReq
  /\ \E r \in UpdateRequests :
       /\ req' = r
       /\ IF bodyParser(r) /= Pass
          THEN /\ res' = bodyParser(r)
               /\ UNCHANGED <<products, writes>>
          ELSE IF ~authMiddleware(r.key)
          THEN /\ res' = UnauthorizedError
               /\ UNCHANGED <<products, writes>>
          ELSE IF validateProductUpdate(r.body) /= Pass
          THEN /\ res' = validateProductUpdate(r.body)
               /\ UNCHANGED <<products, writes>>
          ELSE IF FindIndex(products, r.path[3]) = 0
          THEN /\ res' = NotFoundError
               /\ UNCHANGED <<products, writes>>
          ELSE LET i == FindIndex(products, r.path[3]) IN
               /\ writes < MaxWrites
               /\ products' = [products EXCEPT ![i] = MergeUpdate(products[i], r.body)]
               /\ writes' = writes + 1
               /\ res' = Json(200, MergeUpdate(products[i], r.body))
  /\ UNCHANGED <<issued, deleted, runtime>>

\* DELETE /api/products/:id
DeleteProduct ==
  /\ req = NoReq
  /\ \E r \in DeleteRequests :
       /\ req' = r
       /\ IF bodyParser(r) /= Pass
          THEN /\ res' = bodyParser(r)
               /\ UNCHANGED <<products, deleted, writes>>
          ELSE IF ~authMiddleware(r.key)
          THEN /\ res' = UnauthorizedError
               /\ UNCHANGED <<products, deleted, writes>>
          ELSE IF FindIndex(products, r.path[3]) = 0
          THEN /\ res' = NotFoundError
               /\ UNCHANGED <<products, deleted, writes>>
          ELSE /\ writes < MaxWrites
               /\ products' = Splice(products, FindIndex(products, r.path[3]))
               /\ deleted' = deleted \cup {r.path[3]}
               /\ writes' = writes + 1
               /\ res' = NoContent
  /\ UNCHANGED <<issued, runtime>>

\* A request no route matches: under /api the guard still runs first
\* (apiRouter.use), then Express answers 404
NoRoute ==
  /\ req = NoReq
  /\ \E r \in OtherRequests :
       /\ req' = r
       /\ res' = IF bodyParser(r) /= Pass THEN bodyParser(r)
                 ELSE IF Len(r.path) > 0 /\ r.path[1] = "api" /\ ~authMiddleware(r.key)
                 THEN UnauthorizedError
                 ELSE CannotResponse(r)
  /\ UNCHANGED <<products, issued, deleted, writes, runtime>>

\* The response is sent; the server waits for the next request
Done ==
  /\ req /= NoReq
  /\ req' = NoReq
  /\ res' = NoRes
  /\ UNCHANGED <<products, issued, deleted, writes, runtime>>

Next ==
  \/ GetRoot
  \/ ListProducts
  \/ GetProduct
  \/ CreateProduct
  \/ UpdateProduct
  \/ DeleteProduct
  \/ NoRoute
  \/ Done

Spec == Init /\ [][Next]_vars

(***************************************************************************)
(* Vocabulary of the properties.                                           *)
(***************************************************************************)
\* The request carries exactly the configured secret
Authorized(r) == r.key = Str(API_KEY)

\* The request addresses /api/products/<id>
HasId(r) == Len(r.path) = 3 /\ SubSeq(r.path, 1, 2) = <<"api", "products">>

\* The request goes to one of the seven product endpoints
IsProductEndpoint(r) ==
  \/ r.path = <<"api", "products">> /\ r.method \in {"GET", "POST"}
  \/ HasId(r) /\ r.method \in {"GET", "PUT", "DELETE"}

\* A value of the field's type as the data model declares it: non-empty
\* text, a number, a boolean
WellTyped(f, v) == v.t = DeclaredType(f) /\ (v.t = "string" => v.s /= "")

\* Every stored field of p is set and of its declared type
WellFormed(p) == \A f \in Fields : WellTyped(f, p[f])

UniqueIds(ps) == \A i, j \in 1..Len(ps) : ps[i].id = ps[j].id => i = j

\* C1 as claimed: a request to a product endpoint whose x-api-key is
\* missing or differs from the secret is answered 401, whatever its payload
\* and id, and leaves the collection as it was; GET / is not refused for
\* want of a credential.
UnauthorizedIsAlways401 ==
  [][req' /= NoReq =>
       /\ (req'.method = "GET" /\ req'.path = <<>>) => res'.status /= 401
       /\ (IsProductEndpoint(req') /\ ~Authorized(req')) =>
            (res'.status = 401 /\ products' = products)]_vars

\* C2 as claimed: an authorized POST whose five fields are all of their
\* declared types returns 201 and appends exactly one record with those
\* values under an id no record ever had; ids stay unique.
CreateAcceptsEveryTypedPayload ==
  [][(req'.method = "POST" /\ req'.path = <<"api", "products">>
        /\ Authorized(req')
        /\ \A f \in Fields : WellTyped(f, req'.body[f])) =>
       /\ res'.status = 201
       /\ Len(products') = Len(products) + 1
       /\ SubSeq(products', 1, Len(products)) = products
       /\ \A f \in Fields : products'[Len(products')][f] = req'.body[f]
       /\ products'[Len(products')].id \notin
            Ids(products) \cup SeedIds \cup issued \cup deleted
       /\ UniqueIds(products')]_vars

\* C3: an authorized POST that omits a field, or gives one a value of
\* another type, is answered 400 and leaves the collection as it was.
CreateRejectsIncompleteOrMistyped ==
  [][(req'.method = "POST" /\ req'.path = <<"api", "products">>
        /\ Authorized(req')
        /\ \E f \in Fields : TypeOf(req'.body[f]) /= DeclaredType(f)) =>
       (res'.status = 400 /\ products' = products)]_vars

\* C3 witness: a POST whose price is the string "1" was answered 400.
MistypedCreateSeen ==
  /\ req.method = "POST"
  /\ Authorized(req)
  /\ req.body = [ExampleBody EXCEPT !.price = Str("1")]
  /\ res.status = 400

\* C4 as claimed: an authorized PUT on an existing id whose payload fields
\* are each absent or of their declared type returns 200; every field in
\* the payload replaces the stored one, every other field, the id and every
\* other record stay as they were.
UpdateMergesEveryTypedField ==
  [][(req'.method = "PUT" /\ Authorized(req') /\ HasId(req') /\ req'.parses
        /\ req'.path[3] \in Ids(products)
        /\ \A f \in Fields :
             req'.body[f] = Absent \/ WellTyped(f, req'.body[f])) =>
       LET i == FindIndex(products, req'.path[3]) IN
       /\ res'.status = 200
       /\ Len(products') = Len(products)
       /\ \A j \in 1..Len(products) : j /= i => products'[j] = products[j]
       /\ products'[i].id = products[i].id
       /\ \A f \in Fields :
            products'[i][f] = IF req'.body[f] = Absent THEN products[i][f]
                              ELSE req'.body[f]]_vars

\* C5 as claimed: an authorized GET /api/products/search returns 200 with
\* exactly the records whose name contains q, case-insensitively.
SearchAnswers ==
  (req.method = "GET" /\ req.path = <<"api", "products", "search">>
     /\ Authorized(req) /\ req.parses) =>
    /\ res.status = 200
    /\ res.body = SelectSeq(products, LAMBDA p :
         Includes(ToLowerCase(Chars(p.name.s)),
                  IF req.query.q = Absent THEN <<>>
                  ELSE ToLowerCase(Chars(req.query.q.s))))

\* C6 as claimed: an authorized GET /api/products/stats returns 200 with
\* the number of records of each category present.
StatsAnswers ==
  (req.method = "GET" /\ req.path = <<"api", "products", "stats">>
     /\ Authorized(req) /\ req.parses) =>
    /\ res.status = 200
    /\ res.body = [c \in {products[i].category.s : i \in 1..Len(products)} |->
                     Cardinality({i \in 1..Len(products) :
                                    products[i].category.s = c})]

\* The string is a decimal integer: an optional minus sign, then digits only
IsNumeric(v) ==
  /\ v.t = "string"
  /\ LET cs == Chars(v.s)
         ds == IF Len(cs) > 0 /\ cs[1] = "-" THEN Tail(cs) ELSE cs
     IN Len(ds) > 0 /\ \A k \in 1..Len(ds) : IsDigit(ds[k])

\* The parameter is absent or holds no digit at all
IsNonNumeric(v) ==
  v = Absent \/ (v.t = "string" /\ \A k \in 1..Len(Chars(v.s)) : ~IsDigit(Chars(v.s)[k]))

\* The number a numeric parameter states, or the default d
Supplied(v, d) == IF IsNumeric(v) THEN ParseInt(v).n ELSE d

\* The records of a at the zero-based positions lo <= k < hi
Window(a, lo, hi) ==
  LET at == {k \in 1..Len(a) : lo <= k - 1 /\ k - 1 < hi}
  IN IF at = {} THEN <<>>
     ELSE SubSeq(a, CHOOSE k \in at : \A m \in at : k <= m,
                    CHOOSE k \in at : \A m \in at : m <= k)

\* C7 as claimed: an authorized GET /api/products whose page and limit are
\* absent, numeric or non-numeric returns 200 with the count of the records
\* of the category asked for, the window [(page-1)*limit, page*limit) of
\* them, never more than limit records, and page and limit as supplied
\* (1 and 10 only when absent or non-numeric).
ListAnswersTheWindow ==
  (req.method = "GET" /\ req.path = <<"api", "products">> /\ Authorized(req)
     /\ req.parses
     /\ (IsNumeric(req.query.page) \/ IsNonNumeric(req.query.page))
     /\ (IsNumeric(req.query.limit) \/ IsNonNumeric(req.query.limit))) =>
    LET page == Supplied(req.query.page, 1)
        limit == Supplied(req.query.limit, 10)
        filtered == IF req.query.category \in {Absent, Str("")} THEN products
                    ELSE SelectSeq(products,
                                   LAMBDA p : p.category = req.query.category)
    IN /\ res.status = 200
       /\ res.body.page = page
       /\ res.body.limit = limit
       /\ res.body.total = Len(filtered)
       /\ res.body.products = Window(filtered, (page - 1) * limit, page * limit)
       /\ Len(res.body.products) <= limit

\* C8 as claimed: an authorized DELETE of an id in the collection returns
\* 204 and removes that record alone; of an id not in it, returns 404 and
\* changes nothing; an id once deleted never returns to the collection, and
\* every later GET, PUT and DELETE on it is answered 404.
DeletedIdAlwaysAnswers404 ==
  [][(req' /= NoReq /\ Authorized(req') /\ HasId(req')) =>
       LET id == req'.path[3] IN
       /\ (req'.method = "DELETE" /\ id \in Ids(products)) =>
            /\ res'.status = 204
            /\ products' = SelectSeq(products, LAMBDA p : p.id /= id)
            /\ Len(products') = Len(products) - 1
       /\ (req'.method = "DELETE" /\ id \notin Ids(products)) =>
            (res'.status = 404 /\ products' = products)
       /\ (id \in deleted /\ req'.method \in {"GET", "PUT", "DELETE"}) =>
            res'.status = 404
       /\ deleted' \cap Ids(products') = {}]_vars

\* C9 as claimed: an authorized PUT whose payload gives a field a value of
\* another type is answered 400, whether or not the id exists, and leaves
\* the collection as it was.
UpdateRejectsEveryMistypedField ==
  [][(req'.method = "PUT" /\ HasId(req') /\ Authorized(req')
        /\ \E f \in Fields : req'.body[f] /= Absent
                             /\ TypeOf(req'.body[f]) /= DeclaredType(f)) =>
       (res'.status = 400 /\ products' = products)]_vars

\* C10: every stored product has a non-empty string name, description and
\* category, a number price and a boolean inStock.
StoredProductsAreWellFormed ==
  \A i \in 1..Len(products) : WellFormed(products[i])

\* C10 witness: an update whose payload holds a falsy value was accepted.
FalsyUpdateAccepted ==
  /\ req.method = "PUT"
  /\ Authorized(req)
  /\ req.body = [EmptyBody EXCEPT !.name = Null]
  /\ res.status = 200

====
